---------------------------- MODULE Spec2Model ----------------------------
(***************************************************************************)
(* go_server: an HTTP server with a single dispatching handler, a drain    *)
(* gate (outstandingRequests / shutdownRequested under requestsMutex), the *)
(* POST /hash submission path (count under mu, a detached performHash      *)
(* goroutine per accepted submission, hashedPasswords under                *)
(* passwordMutex), GET /stats, /shutdown and the supervisor main().        *)
(*                                                                         *)
(* Strings are modelled as sequences of one-character strings, so that     *)
(* strings.Split and len() are computed as the code computes them.  A      *)
(* password is a run of one character, <<c, n>> standing for c repeated n  *)
(* times; its length is n.                                                 *)
(***************************************************************************)
EXTENDS Integers, Sequences, FiniteSets, TLC

(* ------------------------------ bounds -------------------------------- *)

\* number of HTTP requests (connections) the clients issue in one run
NumRequests == 2

\* number of HTTP requests in one run of the specification whose clients
\* keep to the hash and stats routes (SpecHistory)
NumHistoryRequests == 3

\* largest value measurePostTime can compute for elapsed (microseconds)
MaxElapsed == 1

(* ------------------------- program constants -------------------------- *)

MaximumAcceptablePasswordLength == 128

HttpGetVerb == "GET"
HttpPostVerb == "POST"

HashMethod == <<"h", "a", "s", "h">>
ShutdownMethod == <<"s", "h", "u", "t", "d", "o", "w", "n">>
StatsMethod == <<"s", "t", "a", "t", "s">>

\* the two builds of the hash method handler found in the repository
BuildCurrent == "part_000"
BuildHashMethodHandler == "hashMethodHandler.go"

(* ------------------------------ strings ------------------------------- *)

EmptyString == << >>

\* a password made of n copies of the character c
Run(c, n) == <<c, n>>
EmptyPassword == Run("", 0)

\* len(s) for a password
len(s) == s[2]

RECURSIVE SplitFrom(_, _, _, _)
SplitFrom(s, i, cur, acc) ==
    IF i > Len(s) THEN Append(acc, cur)
    ELSE IF s[i] = "/" THEN SplitFrom(s, i + 1, EmptyString, Append(acc, cur))
    ELSE SplitFrom(s, i + 1, Append(cur, s[i]), acc)

\* strings.Split(s, "/"): one more element than there are separators
Split(s) == SplitFrom(s, 1, EmptyString, << >>)

Digits == {"0", "1", "2", "3", "4", "5", "6", "7", "8", "9"}

DigitValue(c) ==
    CASE c = "0" -> 0 [] c = "1" -> 1 [] c = "2" -> 2 [] c = "3" -> 3
      [] c = "4" -> 4 [] c = "5" -> 5 [] c = "6" -> 6 [] c = "7" -> 7
      [] c = "8" -> 8 [] c = "9" -> 9

MaxInt32 == 2147483647

\* a lower bound that mirrors the upper one
MinInt32Symmetric == 0 - MaxInt32

MinInt32 == 0 - MaxInt32 - 1

\* the digits s[i..] folded into the negated magnitude acc; "range" is set
\* once the magnitude exceeds 2^31
RECURSIVE NegatedValue(_, _, _)
NegatedValue(s, i, acc) ==
    IF i > Len(s) THEN [range |-> FALSE, neg |-> acc]
    ELSE IF acc < (MinInt32 + DigitValue(s[i]) + 9) \div 10
         THEN [range |-> TRUE, neg |-> MinInt32]
         ELSE NegatedValue(s, i + 1, acc * 10 - DigitValue(s[i]))

\* strconv.ParseInt(s, 10, 32): optional sign, at least one digit, value in
\* the signed 32-bit range; err is TRUE for a syntax or a range error
ParseInt(s) ==
    LET signed == Len(s) > 0 /\ s[1] \in {"+", "-"}
        negative == signed /\ s[1] = "-"
        body == IF signed THEN SubSeq(s, 2, Len(s)) ELSE s
        syntaxOk == Len(body) > 0 /\ \A i \in 1..Len(body) : body[i] \in Digits
        v == IF syntaxOk THEN NegatedValue(body, 1, 0) ELSE [range |-> FALSE, neg |-> 0]
    IN  IF ~syntaxOk \/ v.range \/ (~negative /\ v.neg = MinInt32)
        THEN [err |-> TRUE, i |-> 0]
        ELSE [err |-> FALSE, i |-> IF negative THEN v.neg ELSE 0 - v.neg]

(* ------------------------------ requests ------------------------------ *)

PasswordFormField == "password"

\* http.Request.FormValue: the value of the field, "" when it is absent
FormValue(form, field) ==
    IF field \in DOMAIN form THEN form[field] ELSE EmptyPassword

Uri(method) == <<"/">> \o method
UriWithQualifier(method, qualifier) == <<"/">> \o method \o <<"/">> \o qualifier

\* form data without the password field
NoPasswordForm == [other |-> Run("z", 1)]

PasswordForms ==
    { NoPasswordForm,
      [password |-> EmptyPassword],
      [password |-> Run("a", 1)],
      [password |-> Run("b", MaximumAcceptablePasswordLength)],
      [password |-> Run("c", MaximumAcceptablePasswordLength + 1)] }

\* the requests the clients may send
Requests ==
    { [method |-> HttpPostVerb, uri |-> Uri(HashMethod), form |-> f] : f \in PasswordForms }
    \cup
    { [method |-> HttpGetVerb, uri |-> UriWithQualifier(HashMethod, <<"1">>),
       form |-> NoPasswordForm],
      [method |-> HttpGetVerb, uri |-> Uri(StatsMethod), form |-> NoPasswordForm],
      [method |-> HttpGetVerb, uri |-> Uri(<<"x">>), form |-> NoPasswordForm],
      [method |-> HttpGetVerb, uri |-> Uri(ShutdownMethod), form |-> NoPasswordForm],
      [method |-> HttpPostVerb, uri |-> Uri(ShutdownMethod), form |-> NoPasswordForm],
      [method |-> "PUT", uri |-> Uri(ShutdownMethod), form |-> NoPasswordForm],
      [method |-> "generic", uri |-> Uri(ShutdownMethod), form |-> NoPasswordForm],
      [method |-> HttpPostVerb, uri |-> Uri(StatsMethod), form |-> NoPasswordForm] }

\* the requests of the clients that keep to the hash and stats routes: two
\* submissions with different passwords, a submission without a password,
\* a retrieval and the statistics
HistoryRequests ==
    { [method |-> HttpPostVerb, uri |-> Uri(HashMethod), form |-> f] :
          f \in { NoPasswordForm,
                  [password |-> Run("a", 1)],
                  [password |-> Run("b", MaximumAcceptablePasswordLength)] } }
    \cup
    { [method |-> HttpGetVerb, uri |-> UriWithQualifier(HashMethod, <<"1">>),
       form |-> NoPasswordForm],
      [method |-> HttpGetVerb, uri |-> Uri(StatsMethod), form |-> NoPasswordForm] }

\* the requests of the clients that try the paths under /hash: without a
\* qualifier, with an empty one, with one that is no integer, with one above
\* the 32-bit range, with two, and submissions on such paths with and without
\* an acceptable password
PathRequests ==
    { [method |-> HttpGetVerb, uri |-> u, form |-> NoPasswordForm] :
          u \in { Uri(HashMethod),
                  UriWithQualifier(HashMethod, EmptyString),
                  UriWithQualifier(HashMethod, <<"x">>),
                  UriWithQualifier(HashMethod, <<"1">>),
                  UriWithQualifier(HashMethod, <<"1", "/", "2">>),
                  UriWithQualifier(HashMethod,
                                   <<"2", "1", "4", "7", "4", "8", "3", "6", "4", "8">>),
                  Uri(StatsMethod) } }
    \cup
    { [method |-> HttpPostVerb, uri |-> Uri(HashMethod),
       form |-> [password |-> Run("a", 1)]],
      [method |-> HttpPostVerb, uri |-> UriWithQualifier(HashMethod, EmptyString),
       form |-> [password |-> Run("a", 1)]] }
    \cup
    { [method |-> HttpPostVerb, uri |-> UriWithQualifier(HashMethod, <<"7">>),
       form |-> f] :
          f \in { NoPasswordForm,
                  [password |-> Run("a", 1)],
                  [password |-> Run("c", MaximumAcceptablePasswordLength + 1)] } }

\* the qualifiers of the clients that try the range of GET /hash/<n>: zero,
\* negative values, the two ends of the signed 32-bit range, the first
\* values outside it, and the largest 64-bit value
Qualifiers ==
    { <<"0">>, <<"1">>, <<"-", "1">>,
      <<"2", "1", "4", "7", "4", "8", "3", "6", "4", "7">>,
      <<"2", "1", "4", "7", "4", "8", "3", "6", "4", "8">>,
      <<"-", "2", "1", "4", "7", "4", "8", "3", "6", "4", "8">>,
      <<"-", "2", "1", "4", "7", "4", "8", "3", "6", "4", "9">>,
      <<"9", "2", "2", "3", "3", "7", "2", "0", "3", "6",
        "8", "5", "4", "7", "7", "5", "8", "0", "7">> }

\* these retrievals and a submission with an acceptable password
QualifierRequests ==
    { [method |-> HttpGetVerb, uri |-> UriWithQualifier(HashMethod, q),
       form |-> NoPasswordForm] : q \in Qualifiers }
    \cup
    { [method |-> HttpPostVerb, uri |-> Uri(HashMethod),
       form |-> [password |-> Run("a", 1)]] }

NoRequest == [method |-> "", uri |-> EmptyString, form |-> NoPasswordForm]

(* ------------------------------ responses ----------------------------- *)

NoDigest == [alg |-> "", of |-> EmptyPassword]

\* sha512 followed by base64.StdEncoding: a pure function of the password,
\* never the empty string
Digest(password) == [alg |-> "sha512/base64", of |-> password]

NoResponse == [kind |-> "none", n |-> 0, avg |-> 0, digest |-> NoDigest]

\* {"error": code}
ErrorResponse(code) == [kind |-> "error", n |-> code, avg |-> 0, digest |-> NoDigest]

\* {"error": 405} together with {"Allow": GET POST}
VerbNotSupportedResponse ==
    [kind |-> "errorAllowGetPost", n |-> 405, avg |-> 0, digest |-> NoDigest]

\* the identifier of an accepted POST /hash
IdentifierResponse(id) == [kind |-> "identifier", n |-> id, avg |-> 0, digest |-> NoDigest]

HashedPasswordResponse(d) == [kind |-> "hashedPassword", n |-> 0, avg |-> 0, digest |-> d]

StatsResponse(total, average) ==
    [kind |-> "stats", n |-> total, avg |-> average, digest |-> NoDigest]

\* {"response": 200}
ShutdownResponse == [kind |-> "response", n |-> 200, avg |-> 0, digest |-> NoDigest]

(* -------------------------------- state ------------------------------- *)

VARIABLES
    build,                  \* which hash method handler file is compiled in
    outstandingRequests,    \* part_000:23
    shutdownRequested,      \* part_000:24
    requestsMutex,          \* part_000:21, "locked" only when left locked for good
    httpShutdownRequested,  \* part_003:17, the counter of the WaitGroup
    httpServerExitDone,     \* part_003:24, the counter of the WaitGroup
    count,                  \* part_000:776
    totalTime,              \* part_000:58
    mu,                     \* part_000:775, "locked" only when left locked for good
    hashedPasswords,        \* part_000:800
    pc,                     \* where each request's goroutine stands
    req,                    \* the request each goroutine serves
    tmp,                    \* hash(): the local tmp
    elapsed,                \* measurePostTime(): the local elapsed
    resp,                   \* what was written to the ResponseWriter
    calls,                  \* the functions each request's goroutine has called
    goroutine,              \* the performHash goroutine started by each request
    mainPc,                 \* where main() stands
    listening               \* the listener of srv is open

vars == <<build, outstandingRequests, shutdownRequested, requestsMutex,
          httpShutdownRequested, httpServerExitDone, count, totalTime, mu,
          hashedPasswords, pc, req, tmp, elapsed, resp, calls, goroutine, mainPc,
          listening>>

gateVars == <<outstandingRequests, shutdownRequested, requestsMutex, httpShutdownRequested>>
hashVars == <<count, totalTime, mu, hashedPasswords, tmp, elapsed, goroutine>>
mainVars == <<build, httpServerExitDone, mainPc, listening>>

NoGoroutine == [pc |-> "none", identifier |-> 0, password |-> EmptyPassword]

\* the requests of the run, in the order in which they arrive
Reqs == DOMAIN pc

\* the state main() has built when the server starts to accept requests
InitCommon ==
    /\ outstandingRequests = 0
    /\ shutdownRequested = FALSE
    /\ requestsMutex = "unlocked"
    /\ httpShutdownRequested = 1
    /\ httpServerExitDone = 1
    /\ count = 0
    /\ totalTime = 0
    /\ mu = "unlocked"
    /\ hashedPasswords = << >>
    /\ mainPc = "Wait"
    /\ listening = TRUE

\* no request has arrived yet
InitRequests(n) ==
    /\ pc = [r \in 1..n |-> "idle"]
    /\ req = [r \in 1..n |-> NoRequest]
    /\ tmp = [r \in 1..n |-> 0]
    /\ elapsed = [r \in 1..n |-> 0]
    /\ resp = [r \in 1..n |-> NoResponse]
    /\ calls = [r \in 1..n |-> << >>]
    /\ goroutine = [r \in 1..n |-> NoGoroutine]

Init == build = BuildCurrent /\ InitCommon /\ InitRequests(NumRequests)

InitHashMethodHandler ==
    build = BuildHashMethodHandler /\ InitCommon /\ InitRequests(NumRequests)

InitHistory == build = BuildCurrent /\ InitCommon /\ InitRequests(NumHistoryRequests)

\* either build of the hash method handler
InitPaths ==
    /\ build \in {BuildCurrent, BuildHashMethodHandler}
    /\ InitCommon
    /\ InitRequests(NumRequests)

(* ------------------------------ drain gate ---------------------------- *)

\* sync.WaitGroup.Done on httpShutdownRequested: the counter goes down by one
\* (Go panics when it becomes negative)
Done(counter) == counter - 1

\* an admission that does not look at shutdownRequested
incOutstandingWithoutCheck ==
    [shuttingDown |-> FALSE, outstandingRequests |-> outstandingRequests + 1]

\* the critical section of incOutstandingAndCheckForShutdown: the value it
\* returns and the counter it leaves
incOutstandingAndCheckForShutdown ==
    IF shutdownRequested
    THEN [shuttingDown |-> TRUE, outstandingRequests |-> outstandingRequests]
    ELSE [shuttingDown |-> FALSE, outstandingRequests |-> outstandingRequests + 1]

\* a release that signals at zero whether or not shutdown was requested
decSignalsWithoutFlag(flag, outstanding) == outstanding = 0

\* the condition under which decOutstandingAndCheckForShutdown signals, read
\* after the decrement
decSignals(flag, outstanding) == flag /\ outstanding = 0

\* a shutdown() that takes its own request for the last one outstanding
shutdownSignalsAtOne(outstanding) == outstanding <= 1

\* the condition under which shutdown() signals, read after the flag is set
shutdownSignals(outstanding) == outstanding = 0

(* ------------------------------- routing ------------------------------ *)

\* the handler maps filled by initialize(): the name of the handler
\* registered for the method, "nil" when there is none
\* postHandlerMap with the stats handler registered under POST as well
postHandlerMapWithStats(method) ==
    CASE method = HashMethod -> "hash"
      [] method = ShutdownMethod -> "shutdown"
      [] method = StatsMethod -> "stats"
      [] method = EmptyString -> "unsupportedRequest"
      [] OTHER -> "nil"

postHandlerMap(method) ==
    CASE method = HashMethod -> "hash"
      [] method = ShutdownMethod -> "shutdown"
      [] method = EmptyString -> "unsupportedRequest"
      [] OTHER -> "nil"

getHandlerMap(method) ==
    CASE method = HashMethod -> "hashWithQualifier"
      [] method = StatsMethod -> "stats"
      [] method = ShutdownMethod -> "shutdown"
      [] OTHER -> "nil"

genericHandlerMap(method) ==
    CASE method = ShutdownMethod -> "shutdown"
      [] OTHER -> "nil"

\* verbHttpMap[r.Method]: the map of the verb, "nil" when the verb has none
verbHttpMap(verb) ==
    CASE verb = HttpGetVerb -> "getHandlerMap"
      [] verb = HttpPostVerb -> "postHandlerMap"
      [] verb = "generic" -> "genericHandlerMap"
      [] OTHER -> "nil"

Lookup(handlerMap, method) ==
    CASE handlerMap = "getHandlerMap" -> getHandlerMap(method)
      [] handlerMap = "postHandlerMap" -> postHandlerMap(method)
      [] handlerMap = "genericHandlerMap" -> genericHandlerMap(method)

\* handler(), lines 121-157: the function an admitted request is handed to
Dispatch(q) ==
    LET methodStrings == Split(q.uri)
        handlerMap == verbHttpMap(q.method)
    IN  IF Len(methodStrings) >= 2
        THEN IF handlerMap # "nil"
             THEN IF Lookup(handlerMap, methodStrings[2]) # "nil"
                  THEN Lookup(handlerMap, methodStrings[2])
                  ELSE "unsupportedRequest"
             ELSE "verbNotSupported"
        ELSE "unsupportedRequest"

\* the process is alive and the goroutine of request r is at label l
At(r, l) == mainPc # "exited" /\ pc[r] = l

\* handler(): a request arrives, passes the admission check and is either
\* failed with 503 or handed to the function Dispatch names.  The two
\* responders that touch no shared state write their response here.
handler(r, q) ==
    /\ At(r, "idle")
    /\ listening
    /\ IF r = 1 THEN TRUE ELSE pc[r - 1] # "idle"
    /\ requestsMutex = "unlocked"
    /\ LET adm == incOutstandingAndCheckForShutdown
           h == Dispatch(q)
       IN  /\ outstandingRequests' = adm.outstandingRequests
           /\ req' = [req EXCEPT ![r] = q]
           /\ IF adm.shuttingDown
              THEN /\ calls' = [calls EXCEPT ![r] =
                                  <<"incOutstandingAndCheckForShutdown", "failRequest">>]
                   /\ resp' = [resp EXCEPT ![r] = ErrorResponse(503)]
                   /\ pc' = [pc EXCEPT ![r] = "done"]
              ELSE /\ calls' = [calls EXCEPT ![r] =
                                  <<"incOutstandingAndCheckForShutdown", h>>]
                   /\ resp' = [resp EXCEPT ![r] =
                                  CASE h = "unsupportedRequest" -> ErrorResponse(405)
                                    [] h = "verbNotSupported" -> VerbNotSupportedResponse
                                    [] OTHER -> NoResponse]
                   /\ pc' = [pc EXCEPT ![r] =
                                  IF h \in {"unsupportedRequest", "verbNotSupported"}
                                  THEN "decOutstandingAndCheckForShutdown"
                                  ELSE h]
    /\ UNCHANGED <<shutdownRequested, requestsMutex, httpShutdownRequested>>
    /\ UNCHANGED hashVars
    /\ UNCHANGED mainVars

\* decOutstandingAndCheckForShutdown(): the release of an admitted request
decOutstandingAndCheckForShutdown(r) ==
    /\ At(r, "decOutstandingAndCheckForShutdown")
    /\ requestsMutex = "unlocked"
    /\ outstandingRequests' = outstandingRequests - 1
    /\ IF decSignals(shutdownRequested, outstandingRequests')
       THEN httpShutdownRequested' = Done(httpShutdownRequested)
       ELSE UNCHANGED httpShutdownRequested
    /\ IF httpShutdownRequested' < 0
       THEN /\ requestsMutex' = "locked"
            /\ pc' = [pc EXCEPT ![r] = "panicked"]
       ELSE /\ UNCHANGED requestsMutex
            /\ pc' = [pc EXCEPT ![r] = "done"]
    /\ calls' = [calls EXCEPT ![r] = Append(@, "decOutstandingAndCheckForShutdown")]
    /\ UNCHANGED <<shutdownRequested, req, resp>>
    /\ UNCHANGED hashVars
    /\ UNCHANGED mainVars

\* a shutdown() that waits until its own request is the last one outstanding
shutdownWaitsForDrain(r) ==
    /\ At(r, "shutdown")
    /\ requestsMutex = "unlocked"
    /\ outstandingRequests = 1
    /\ shutdownRequested' = TRUE
    /\ UNCHANGED <<httpShutdownRequested, requestsMutex>>
    /\ pc' = [pc EXCEPT ![r] = "decOutstandingAndCheckForShutdown"]
    /\ resp' = [resp EXCEPT ![r] = ShutdownResponse]
    /\ UNCHANGED <<outstandingRequests, req, calls>>
    /\ UNCHANGED hashVars
    /\ UNCHANGED mainVars

\* shutdown(): the handler of /shutdown
shutdown(r) ==
    /\ At(r, "shutdown")
    /\ requestsMutex = "unlocked"
    /\ shutdownRequested' = TRUE
    /\ IF shutdownSignals(outstandingRequests)
       THEN httpShutdownRequested' = Done(httpShutdownRequested)
       ELSE UNCHANGED httpShutdownRequested
    /\ IF httpShutdownRequested' < 0
       THEN /\ requestsMutex' = "locked"
            /\ pc' = [pc EXCEPT ![r] = "panicked"]
            /\ UNCHANGED resp
       ELSE /\ UNCHANGED requestsMutex
            /\ pc' = [pc EXCEPT ![r] = "decOutstandingAndCheckForShutdown"]
            /\ resp' = [resp EXCEPT ![r] = ShutdownResponse]
    /\ UNCHANGED <<outstandingRequests, req, calls>>
    /\ UNCHANGED hashVars
    /\ UNCHANGED mainVars

(* ------------------------------ POST /hash ---------------------------- *)

requiredFormFields == <<PasswordFormField>>

\* a validateFormData() that checks the length only
validateFormDataLengthOnly(form) ==
    ~(len(FormValue(form, PasswordFormField)) > MaximumAcceptablePasswordLength)

\* validateFormData() of part_000: every required field is present and not
\* empty, and the password is not longer than the maximum
validateFormData(form) ==
    LET success == \A i \in 1..Len(requiredFormFields) :
                       len(FormValue(form, requiredFormFields[i])) # 0
    IN  IF success
        THEN ~(len(FormValue(form, PasswordFormField)) > MaximumAcceptablePasswordLength)
        ELSE FALSE

\* validateFormData() of hashMethodHandler.go: only the presence check
validateFormDataHashMethodHandler(form) ==
    \A i \in 1..Len(requiredFormFields) :
        len(FormValue(form, requiredFormFields[i])) # 0

\* the validateFormData() of the build
validate(form) ==
    IF build = BuildCurrent
    THEN validateFormData(form)
    ELSE validateFormDataHashMethodHandler(form)

\* tmp := count ; count++, the order of the first draft of hash()
allocateThenIncrement(c) == [count |-> c + 1, tmp |-> c]

\* tmp := count + 1 without the store into count
allocateWithoutIncrement(c) == [count |-> c, tmp |-> c + 1]

\* hash(): count++ ; tmp := count, under mu
allocate(c) == [count |-> c + 1, tmp |-> c + 1]

\* hash() up to the release of mu: the form and the path are checked, and an
\* accepted submission takes the next identifier
hash(r) ==
    /\ At(r, "hash")
    /\ LET methodStrings == Split(req[r].uri)
           numOfStr == Len(methodStrings)
       IN  IF validate(req[r].form)
           THEN IF numOfStr = 2
                THEN /\ mu = "unlocked"
                     /\ count' = allocate(count).count
                     /\ tmp' = [tmp EXCEPT ![r] = allocate(count).tmp]
                     /\ pc' = [pc EXCEPT ![r] = "hashRespond"]
                     /\ UNCHANGED resp
                ELSE /\ resp' = [resp EXCEPT ![r] = ErrorResponse(422)]
                     /\ pc' = [pc EXCEPT ![r] = "measurePostTime"]
                     /\ UNCHANGED <<count, tmp>>
           ELSE /\ resp' = [resp EXCEPT ![r] = ErrorResponse(412)]
                /\ pc' = [pc EXCEPT ![r] = "measurePostTime"]
                /\ UNCHANGED <<count, tmp>>
    /\ UNCHANGED <<totalTime, mu, hashedPasswords, elapsed, goroutine, req, calls>>
    /\ UNCHANGED gateVars
    /\ UNCHANGED mainVars

\* a hash() that calls performHash() without "go": the handler returns after
\* the digest is stored
hashRespondInline(r) ==
    /\ At(r, "hashRespond")
    /\ resp' = [resp EXCEPT ![r] = IdentifierResponse(tmp[r])]
    /\ goroutine' = [goroutine EXCEPT ![r] =
                        [pc |-> "returned", identifier |-> tmp[r],
                         password |-> FormValue(req[r].form, PasswordFormField)]]
    /\ hashedPasswords' = (tmp[r] :> Digest(FormValue(req[r].form, PasswordFormField)))
                              @@ hashedPasswords
    /\ pc' = [pc EXCEPT ![r] = "measurePostTime"]
    /\ UNCHANGED <<count, totalTime, mu, tmp, elapsed, req, calls>>
    /\ UNCHANGED gateVars
    /\ UNCHANGED mainVars

\* hash(), lines 852-859: the identifier is written to the response and the
\* performHash goroutine is started
hashRespond(r) ==
    /\ At(r, "hashRespond")
    /\ resp' = [resp EXCEPT ![r] = IdentifierResponse(tmp[r])]
    /\ goroutine' = [goroutine EXCEPT ![r] =
                        [pc |-> "Sleep", identifier |-> tmp[r],
                         password |-> FormValue(req[r].form, PasswordFormField)]]
    /\ pc' = [pc EXCEPT ![r] = "measurePostTime"]
    /\ UNCHANGED <<count, totalTime, mu, hashedPasswords, tmp, elapsed, req, calls>>
    /\ UNCHANGED gateVars
    /\ UNCHANGED mainVars

\* measurePostTime(), deferred by hash(): the elapsed time is added to
\* totalTime under mu
measurePostTime(r) ==
    /\ At(r, "measurePostTime")
    /\ mu = "unlocked"
    /\ \E e \in 0..MaxElapsed :
          /\ elapsed' = [elapsed EXCEPT ![r] = e]
          /\ totalTime' = totalTime + elapsed'[r]
    /\ pc' = [pc EXCEPT ![r] = "decOutstandingAndCheckForShutdown"]
    /\ calls' = [calls EXCEPT ![r] = Append(@, "measurePostTime")]
    /\ UNCHANGED <<count, mu, hashedPasswords, tmp, goroutine, req, resp>>
    /\ UNCHANGED gateVars
    /\ UNCHANGED mainVars

\* performHash(): after the sleep the digest is stored under passwordMutex
performHash(r) ==
    /\ mainPc # "exited"
    /\ goroutine[r].pc = "Sleep"
    /\ hashedPasswords' = (goroutine[r].identifier :> Digest(goroutine[r].password))
                              @@ hashedPasswords
    /\ goroutine' = [goroutine EXCEPT ![r].pc = "returned"]
    /\ UNCHANGED <<count, totalTime, mu, tmp, elapsed, pc, req, resp, calls>>
    /\ UNCHANGED gateVars
    /\ UNCHANGED mainVars

(* ------------------------------ GET /hash ----------------------------- *)

\* hashedPasswords[identifier]: the zero value "" for a missing key
MapLookup(m, k) == IF k \in DOMAIN m THEN m[k] ELSE NoDigest

\* returnHashedPassword() without the test for the missing key
returnHashedPasswordNoEmptyCheck(identifier) ==
    HashedPasswordResponse(MapLookup(hashedPasswords, identifier))

\* returnHashedPassword(): what is written for the identifier
returnHashedPassword(identifier) ==
    LET password == MapLookup(hashedPasswords, identifier)
    IN  IF password = NoDigest
        THEN ErrorResponse(404)
        ELSE HashedPasswordResponse(password)

\* a hashWithQualifier() that accepts segments after the qualifier
hashWithQualifierAtLeastThree(r) ==
    /\ At(r, "hashWithQualifier")
    /\ LET methodStrings == Split(req[r].uri)
           numOfStr == Len(methodStrings)
       IN  resp' = [resp EXCEPT ![r] =
                       IF numOfStr >= 3
                       THEN IF ~ParseInt(methodStrings[3]).err
                            THEN returnHashedPassword(ParseInt(methodStrings[3]).i)
                            ELSE ErrorResponse(422)
                       ELSE ErrorResponse(422)]
    /\ pc' = [pc EXCEPT ![r] = "decOutstandingAndCheckForShutdown"]
    /\ UNCHANGED <<req, calls>>
    /\ UNCHANGED hashVars
    /\ UNCHANGED gateVars
    /\ UNCHANGED mainVars

\* hashWithQualifier(): the handler of GET /hash
hashWithQualifier(r) ==
    /\ At(r, "hashWithQualifier")
    /\ LET methodStrings == Split(req[r].uri)
           numOfStr == Len(methodStrings)
       IN  resp' = [resp EXCEPT ![r] =
                       IF numOfStr = 3
                       THEN IF ~ParseInt(methodStrings[3]).err
                            THEN returnHashedPassword(ParseInt(methodStrings[3]).i)
                            ELSE ErrorResponse(422)
                       ELSE ErrorResponse(422)]
    /\ pc' = [pc EXCEPT ![r] = "decOutstandingAndCheckForShutdown"]
    /\ UNCHANGED <<req, calls>>
    /\ UNCHANGED hashVars
    /\ UNCHANGED gateVars
    /\ UNCHANGED mainVars

(* ------------------------------ GET /stats ---------------------------- *)

\* stats(): total and average under mu.  The division by a zero count is a
\* run-time panic: the goroutine of the request ends there, recovered by
\* net/http, mu stays locked and the rest of handler() is not run.
stats(r) ==
    /\ At(r, "stats")
    /\ mu = "unlocked"
    /\ IF count = 0
       THEN /\ mu' = "locked"
            /\ pc' = [pc EXCEPT ![r] = "panicked"]
            /\ UNCHANGED resp
       ELSE /\ resp' = [resp EXCEPT ![r] = StatsResponse(count, totalTime \div count)]
            /\ pc' = [pc EXCEPT ![r] = "decOutstandingAndCheckForShutdown"]
            /\ UNCHANGED mu
    /\ UNCHANGED <<count, totalTime, hashedPasswords, tmp, elapsed, goroutine, req, calls>>
    /\ UNCHANGED gateVars
    /\ UNCHANGED mainVars

(* -------------------------------- main -------------------------------- *)

\* a connection is active while its handler has not returned
Active(r) == pc[r] \notin {"idle", "done", "panicked"}

\* a main() that calls srv.Shutdown without waiting for httpShutdownRequested
srvShutdownWithoutWait ==
    /\ mainPc = "Wait"
    /\ listening' = FALSE
    /\ mainPc' = "Shutdown"
    /\ UNCHANGED <<build, httpServerExitDone, pc, req, resp, calls>>
    /\ UNCHANGED hashVars
    /\ UNCHANGED gateVars

\* httpShutdownRequested.Wait() returns and srv.Shutdown closes the listener
srvShutdown ==
    /\ mainPc = "Wait"
    /\ httpShutdownRequested = 0
    /\ listening' = FALSE
    /\ mainPc' = "Shutdown"
    /\ UNCHANGED <<build, httpServerExitDone, pc, req, resp, calls>>
    /\ UNCHANGED hashVars
    /\ UNCHANGED gateVars

\* the goroutine of startHttpServer: ListenAndServe returns ErrServerClosed
\* and the deferred wg.Done() runs
listenAndServeReturns ==
    /\ mainPc # "exited"
    /\ ~listening
    /\ httpServerExitDone = 1
    /\ httpServerExitDone' = Done(httpServerExitDone)
    /\ UNCHANGED <<build, mainPc, listening, pc, req, resp, calls>>
    /\ UNCHANGED hashVars
    /\ UNCHANGED gateVars

\* srv.Shutdown returns once no connection is active
srvShutdownReturns ==
    /\ mainPc = "Shutdown"
    /\ \A r \in Reqs : ~Active(r)
    /\ mainPc' = "httpServerExitDone.Wait"
    /\ UNCHANGED <<build, httpServerExitDone, listening, pc, req, resp, calls>>
    /\ UNCHANGED hashVars
    /\ UNCHANGED gateVars

\* httpServerExitDone.Wait() returns and main() returns: the process exits
mainExit ==
    /\ mainPc = "httpServerExitDone.Wait"
    /\ httpServerExitDone = 0
    /\ mainPc' = "exited"
    /\ UNCHANGED <<build, httpServerExitDone, listening, pc, req, resp, calls>>
    /\ UNCHANGED hashVars
    /\ UNCHANGED gateVars

(* ---------------------------- specification --------------------------- *)

\* the steps of the hash and stats handlers and of the performHash goroutines
HashStep ==
    \/ \E r \in Reqs : hash(r)
    \/ \E r \in Reqs : hashRespond(r)
    \/ \E r \in Reqs : measurePostTime(r)
    \/ \E r \in Reqs : hashWithQualifier(r)
    \/ \E r \in Reqs : stats(r)
    \/ \E r \in Reqs : decOutstandingAndCheckForShutdown(r)
    \/ \E r \in Reqs : performHash(r)

\* the steps of the shutdown handler and of main()
ShutdownStep ==
    \/ \E r \in Reqs : shutdown(r)
    \/ srvShutdown
    \/ listenAndServeReturns
    \/ srvShutdownReturns
    \/ mainExit

Next ==
    \/ \E r \in Reqs : \E q \in Requests : handler(r, q)
    \/ HashStep
    \/ ShutdownStep

Spec == Init /\ [][Next]_vars

\* longer runs in which the clients keep to the hash and stats routes and
\* nobody asks for the shutdown
NextHistory ==
    \/ \E r \in Reqs : \E q \in HistoryRequests : handler(r, q)
    \/ HashStep

SpecHistory == InitHistory /\ [][NextHistory]_vars

\* the clients try the paths under /hash, against either build, and nobody
\* asks for the shutdown
NextPaths ==
    \/ \E r \in Reqs : \E q \in PathRequests : handler(r, q)
    \/ HashStep

SpecPaths == InitPaths /\ [][NextPaths]_vars

\* the steps of the hash handlers, of the release and of the goroutines
QualifierStep ==
    \/ \E r \in Reqs : hash(r)
    \/ \E r \in Reqs : hashRespond(r)
    \/ \E r \in Reqs : measurePostTime(r)
    \/ \E r \in Reqs : hashWithQualifier(r)
    \/ \E r \in Reqs : decOutstandingAndCheckForShutdown(r)
    \/ \E r \in Reqs : performHash(r)

\* the server under the clients that try the range of the qualifier, in
\* either build
NextQualifier ==
    \/ \E r \in Reqs : \E q \in QualifierRequests : handler(r, q)
    \/ QualifierStep

SpecQualifier == InitPaths /\ [][NextQualifier]_vars

\* the build whose hash method handler is hashMethodHandler.go
SpecHashMethodHandler == InitHashMethodHandler /\ [][Next]_vars

(* ------------------------------- claims ------------------------------- *)

\* the function handler() called for the request after the admission check
Called(r) == IF Len(calls[r]) >= 2 THEN calls[r][2] ELSE "none"

\* the admission check let the request in / turned it away
Admitted(r) == Called(r) \notin {"none", "failRequest"}
Rejected(r) == Called(r) = "failRequest"

\* the request was handed to hash()
InHash(r) == Called(r) = "hash"

Password(r) == FormValue(req[r].form, PasswordFormField)

\* the signal httpShutdownRequested.Done() has been given
Signalled == httpShutdownRequested < 1

\* hash() refused the submission of r: no identifier, no goroutine, and 412
\* once hash() has answered
Refused412(r) ==
    /\ tmp[r] = 0
    /\ goroutine[r] = NoGoroutine
    /\ pc[r] # "hash" => resp[r] = ErrorResponse(412)

\* C1: a request whose admission check runs once shutdownRequested is set is
\* answered with 503 in that step; the counter is not incremented for it, no
\* handler is called for it and it never calls the release: it takes no
\* further step.
C1_RejectedAfterShutdown ==
    /\ [][\A r \in Reqs :
            (pc[r] = "idle" /\ pc'[r] # "idle" /\ shutdownRequested)
            => /\ resp'[r] = ErrorResponse(503)
               /\ pc'[r] = "done"
               /\ calls'[r] = <<"incOutstandingAndCheckForShutdown", "failRequest">>
               /\ outstandingRequests' = outstandingRequests]_vars
    /\ [][\A r \in Reqs :
            Rejected(r) => (pc'[r] = pc[r] /\ calls'[r] = calls[r] /\ resp'[r] = resp[r])]_vars

\* C1 witness: a request has been turned away with 503 while a request
\* admitted before it is still in flight and holds the counter above zero.
C1_Witness ==
    \E r, q \in Reqs :
        /\ Rejected(r) /\ resp[r] = ErrorResponse(503) /\ pc[r] = "done"
        /\ Admitted(q) /\ Active(q)
        /\ outstandingRequests = 1

\* C2: the shutdown-ready signal is given at most once: the counter of the
\* WaitGroup httpShutdownRequested, set to 1 by main(), never goes below zero.
C2_SignalAtMostOnce == httpShutdownRequested \in {0, 1}

\* C2 witness: two /shutdown requests were admitted together, both ran
\* shutdown(), both were released, and the signal has been given.
C2_Witness ==
    \E r, q \in Reqs :
        /\ r # q
        /\ calls[r] = <<"incOutstandingAndCheckForShutdown", "shutdown",
                        "decOutstandingAndCheckForShutdown">>
        /\ calls[q] = calls[r]
        /\ httpShutdownRequested = 0

\* C3: every step that gives the shutdown-ready signal ends in a state where
\* shutdownRequested is true and outstandingRequests is 0.
C3_SignalOnlyWhenDrained ==
    [][httpShutdownRequested' # httpShutdownRequested
         => (shutdownRequested' /\ outstandingRequests' = 0)]_vars

\* C3 witness: the signal has been given after a POST /hash that was in
\* flight when shutdown was requested has been released.
C3_Witness ==
    /\ Signalled
    /\ \E r, q \in Reqs :
          /\ r < q
          /\ InHash(r) /\ pc[r] = "done"
          /\ Called(q) = "shutdown" /\ pc[q] = "done"

\* C4: once /shutdown has been admitted and no request is in its handler any
\* more, the shutdown-ready signal has been given.
C4_DrainCompletes ==
    (shutdownRequested /\ \A r \in Reqs : ~Active(r)) => Signalled

\* C5: a request that was admitted and whose handler has ended has its normal
\* response: some response, and not 503.
C5_AdmittedCompletesNormally ==
    \A r \in Reqs :
        (Admitted(r) /\ ~Active(r))
        => (resp[r] # NoResponse /\ resp[r] # ErrorResponse(503))

\* C6 as stated: an identifier written to a response is greater than every
\* identifier written to a response before it.
C6_ReturnedHandlesIncrease ==
    [][\A r \in Reqs :
          (resp[r].kind = "none" /\ resp'[r].kind = "identifier")
          => \A q \in Reqs : resp[q].kind = "identifier" => resp[q].n < resp'[r].n]_vars

\* C6 amended: an identifier is greater than every identifier allocated
\* before it, hence than every identifier already written to a response when
\* it is allocated, and a submission is answered with the identifier
\* allocated to it.
C6_AllocatedHandlesIncrease ==
    [][\A r \in Reqs :
          /\ tmp'[r] # tmp[r]
             => /\ \A q \in Reqs : tmp[q] < tmp'[r]
                /\ \A q \in Reqs : resp[q].kind = "identifier" => resp[q].n < tmp'[r]
          /\ resp'[r].kind = "identifier" => resp'[r].n = tmp[r] /\ tmp[r] > 0]_vars

\* C6 witness: the submission holding identifier 2 has been answered while
\* the one holding identifier 1 has not yet written its response.
C6_Witness ==
    \E r, q \in Reqs :
        /\ tmp[r] = 1 /\ pc[r] = "hashRespond"
        /\ tmp[q] = 2 /\ resp[q] = IdentifierResponse(2)

\* C7: the accepted submissions hold distinct identifiers, the identifiers
\* issued are exactly 1..count with count the number of accepted
\* submissions, and each accepted submission has started exactly one
\* performHash goroutine, for its own identifier, by the time it has answered.
C7_DistinctHandlesOneTask ==
    LET accepted == {r \in Reqs : InHash(r) /\ pc[r] # "hash"
                                   /\ validate(req[r].form) /\ Len(Split(req[r].uri)) = 2}
    IN  /\ \A r, q \in accepted : r # q => tmp[r] # tmp[q]
        /\ {tmp[r] : r \in accepted} = 1..count
        /\ Cardinality(accepted) = count
        /\ \A r \in Reqs \ accepted : tmp[r] = 0 /\ goroutine[r] = NoGoroutine
        /\ \A r \in accepted :
              IF pc[r] = "hashRespond"
              THEN goroutine[r] = NoGoroutine
              ELSE /\ goroutine[r].pc # "none"
                   /\ goroutine[r].identifier = tmp[r]
                   /\ resp[r] = IdentifierResponse(tmp[r])
        /\ \A h \in 1..count :
              Cardinality({r \in Reqs : goroutine[r].pc # "none"
                                         /\ goroutine[r].identifier = h}) <= 1

\* C7 witness: every request of the run was an accepted submission, and
\* their goroutines are all pending.
C7_Witness ==
    /\ count = NumRequests
    /\ \A r \in Reqs : goroutine[r].pc = "Sleep"

\* C8: a POST /hash whose password is missing or empty is answered 412, holds
\* no identifier and starts no goroutine, and none of its steps changes
\* count, hashedPasswords or the goroutines.
C8_EmptyPasswordRefused ==
    /\ [](\A r \in Reqs : (InHash(r) /\ len(Password(r)) = 0) => Refused412(r))
    /\ [][\A r \in Reqs :
            (pc'[r] # pc[r] /\ Dispatch(req'[r]) = "hash" /\ len(FormValue(req'[r].form, PasswordFormField)) = 0)
            => UNCHANGED <<count, hashedPasswords, goroutine>>]_vars

\* C8 witness: a submission without password was answered 412 and the valid
\* submission that arrived after it was answered with identifier 1.
C8_Witness ==
    \E r, q \in Reqs :
        /\ r < q
        /\ InHash(r) /\ len(Password(r)) = 0 /\ resp[r] = ErrorResponse(412)
        /\ resp[q] = IdentifierResponse(1)

\* C9: a POST /hash whose password is longer than the maximum is refused with
\* 412, without an identifier and without a goroutine, and one whose password
\* has a length of 1..maximum is not refused, whichever validateFormData()
\* is compiled in.
C9_OversizedRefused ==
    \A r \in Reqs :
        InHash(r) =>
            IF len(Password(r)) > MaximumAcceptablePasswordLength
            THEN Refused412(r)
            ELSE (len(Password(r)) >= 1 /\ pc[r] # "hash") => resp[r] # ErrorResponse(412)

\* C10: a POST /hash whose password has the maximum length or more is refused
\* with 412: only the lengths below the maximum are accepted.
C10_BelowMaximumOnly ==
    \A r \in Reqs :
        (InHash(r) /\ len(Password(r)) >= MaximumAcceptablePasswordLength)
        => Refused412(r)

(* ----------------------------- retrieval ------------------------------ *)

DecimalDigits == <<"0", "1", "2", "3", "4", "5", "6", "7", "8", "9">>

RECURSIVE Itoa(_)
\* the decimal notation of a natural number
Itoa(n) ==
    IF n < 10
    THEN <<DecimalDigits[n + 1]>>
    ELSE Itoa(n \div 10) \o <<DecimalDigits[(n % 10) + 1]>>

\* the request asks for GET /hash/h
Retrieves(r, h) ==
    /\ req[r].method = HttpGetVerb
    /\ req[r].uri = UriWithQualifier(HashMethod, Itoa(h))

\* the performHash goroutine started for identifier h has stored its digest
Written(h) == \E r \in Reqs : goroutine[r].identifier = h /\ goroutine[r].pc = "returned"

\* hashWithQualifier() answers the request r in this step
Answers(r) == pc[r] = "hashWithQualifier" /\ pc'[r] # pc[r]

\* C11: for every issued identifier h, GET /hash/h is answered with 404 as
\* long as the goroutine of h has not stored its digest and with exactly the
\* digest of the password of the request that received h afterwards; what
\* is stored under h is the digest of that password and of no other
C11_RetrievalFollowsTheWrite ==
    /\ [](\A h \in DOMAIN hashedPasswords :
            /\ \E r \in Reqs : tmp[r] = h
            /\ \A r \in Reqs : tmp[r] = h => hashedPasswords[h] = Digest(Password(r)))
    /\ [][\A r, o \in Reqs :
            (Answers(r) /\ tmp[o] # 0 /\ Retrieves(r, tmp[o]))
            => resp'[r] = IF Written(tmp[o])
                          THEN HashedPasswordResponse(Digest(Password(o)))
                          ELSE ErrorResponse(404)]_vars

\* two identifiers are stored for two different passwords and GET /hash/1 was
\* answered with the digest of the password submitted for identifier 1
C11_Witness ==
    \E a, b, g \in Reqs :
        /\ tmp[a] = 1 /\ tmp[b] = 2
        /\ Password(a) # Password(b)
        /\ DOMAIN hashedPasswords = {1, 2}
        /\ Retrieves(g, 1)
        /\ resp[g] = HashedPasswordResponse(Digest(Password(a)))

\* the qualifier of the path of r, the empty string when there is none
Qualifier(r) ==
    IF Len(Split(req[r].uri)) = 3 THEN Split(req[r].uri)[3] ELSE EmptyString

\* a non-negative integer in decimal notation
IsDecimal(s) == Len(s) > 0 /\ \A i \in 1..Len(s) : s[i] \in Digits

\* no identifier handed out so far is written s
NeverIssued(s) == \A h \in 1..count : Itoa(h) # s

\* hashWithQualifier() has answered the request r
Retrieved(r) ==
    Called(r) = "hashWithQualifier" /\ pc[r] \in {"decOutstandingAndCheckForShutdown", "done"}

\* C12: GET /hash/n for a non-negative integer n that was never handed out as
\* an identifier is answered with 404, as for an identifier whose digest is
\* not stored yet
C12_NeverIssuedNotFound ==
    \A r \in Reqs :
        (Retrieved(r) /\ IsDecimal(Qualifier(r)) /\ NeverIssued(Qualifier(r)))
        => resp[r] = ErrorResponse(404)

(* ------------------------------ the store ----------------------------- *)

\* C13: hashedPasswords is write-once: no step, of whatever operation,
\* changes or removes the value a key already has
C13_WriteOnce ==
    [][\A k \in DOMAIN hashedPasswords :
          k \in DOMAIN hashedPasswords' /\ hashedPasswords'[k] = hashedPasswords[k]]_vars

\* the digests of two submissions with different passwords are stored, the
\* second one while the first one was already there
C13_Witness ==
    \E a, b \in Reqs :
        /\ Password(a) # Password(b)
        /\ goroutine[a].pc = "returned" /\ goroutine[b].pc = "returned"
        /\ hashedPasswords[goroutine[a].identifier] = Digest(Password(a))
        /\ hashedPasswords[goroutine[b].identifier] = Digest(Password(b))

\* C14: every performHash goroutine started by an accepted submission stores
\* its digest, also when the shutdown is asked for and main() goes on to
\* exit while the goroutine still sleeps; stated on the run that has ended:
\* once the process has exited, no goroutine is left that was started and
\* has not stored its digest
C14_ScheduledTasksWrite ==
    mainPc = "exited" => \A r \in Reqs : goroutine[r].pc # "Sleep"

(* ----------------------------- statistics ----------------------------- *)

\* the submissions hash() has accepted
AcceptedSubmissions == {q \in Reqs : InHash(q) /\ tmp[q] # 0}

RECURSIVE SumElapsed(_)
\* the sum of the latencies measured for the requests of S
SumElapsed(S) ==
    IF S = {} THEN 0
    ELSE LET q == CHOOSE x \in S : TRUE IN elapsed[q] + SumElapsed(S \ {q})

\* stats() answers the request r in this step
Snapshot(r) == pc[r] = "stats" /\ pc'[r] # pc[r] /\ resp'[r].kind = "stats"

\* C15: when N >= 1 submissions have been accepted and all of them have
\* completed, with the latencies L1..LN, GET /stats answers total = N and
\* average = (L1 + ... + LN) div N, whatever other requests were served
C15_StatsOfAccepted ==
    [][\A r \in Reqs :
          (/\ Snapshot(r)
           /\ AcceptedSubmissions # {}
           /\ \A q \in AcceptedSubmissions : pc[q] = "done")
          => /\ resp'[r].n = Cardinality(AcceptedSubmissions)
             /\ resp'[r].avg = SumElapsed(AcceptedSubmissions)
                                  \div Cardinality(AcceptedSubmissions)]_vars

\* C16: no request makes its handler fault; GET /stats in particular is
\* answered when no submission has been accepted yet
C16_NoHandlerFaults ==
    \A r \in Reqs :
        /\ pc[r] # "panicked"
        /\ (Called(r) = "stats" /\ pc[r] = "done") => resp[r].kind = "stats"

\* measurePostTime() has added the latency of the request q to totalTime
Measured(q) == \E i \in DOMAIN calls[q] : calls[q][i] = "measurePostTime"

\* C17: count and totalTime change together: whenever stats() takes its
\* snapshot, the latency of every submission counted in total has been added
\* to totalTime
C17_CountedWithLatency ==
    [][\A r \in Reqs :
          Snapshot(r) => \A q \in AcceptedSubmissions : Measured(q)]_vars

(* ------------------------------ routing ------------------------------- *)

\* C18: while the server is not shutting down, a request whose verb is
\* neither GET nor POST is answered with 405 and the list GET POST, whatever
\* its path, and none of the handlers of hash, stats and shutdown is run
C18_OtherVerbsNotAllowed ==
    \A r \in Reqs :
        (Admitted(r) /\ req[r].method \notin {HttpGetVerb, HttpPostVerb})
        => /\ Called(r) = "verbNotSupported"
           /\ resp[r] = VerbNotSupportedResponse

\* the first segment of the path of r after the leading "/"
MethodName(r) == Split(req[r].uri)[2]

\* the verb of r is GET or POST and its table has no handler for the path
Unregistered(r) ==
    \/ /\ req[r].method = HttpGetVerb
       /\ MethodName(r) \notin {HashMethod, StatsMethod, ShutdownMethod}
    \/ /\ req[r].method = HttpPostVerb
       /\ MethodName(r) \notin {HashMethod, ShutdownMethod}

\* C19: a GET or POST request for which the table of its verb has no
\* handler, and a request whose path splits into fewer than two segments,
\* is answered with 405 without the list of verbs; serving it changes
\* neither count, hashedPasswords, totalTime nor shutdownRequested
C19_UnsupportedLeavesStateAlone ==
    /\ [](/\ \A r \in Reqs :
               (Admitted(r) /\ Unregistered(r))
               => Called(r) = "unsupportedRequest" /\ resp[r] = ErrorResponse(405)
          /\ \A verb \in {HttpGetVerb, HttpPostVerb, "PUT"} :
               \A uri \in {EmptyString, <<"*">>, HashMethod} :
                   Dispatch([method |-> verb, uri |-> uri, form |-> NoPasswordForm])
                       = "unsupportedRequest")
    /\ [][\A r \in Reqs :
            (pc'[r] # pc[r] /\ Called(r)' = "unsupportedRequest")
            => UNCHANGED <<count, hashedPasswords, totalTime, shutdownRequested>>]_vars

\* POST /stats was answered with 405 and released after a submission had
\* taken an identifier
C19_Witness ==
    \E r, q \in Reqs :
        /\ tmp[q] = 1
        /\ req[r].method = HttpPostVerb /\ MethodName(r) = StatsMethod
        /\ resp[r] = ErrorResponse(405)
        /\ pc[r] = "done"
        /\ count = 1

\* C20: once shutdownRequested is set, a request is turned away before it is
\* routed: whatever its verb and its path, the step that serves it writes
\* 503 and changes nothing of the state of the server, and 503 stays its
\* only response
C20_RejectionBeforeRouting ==
    /\ [][\A r \in Reqs :
            (pc[r] = "idle" /\ pc'[r] # "idle" /\ shutdownRequested)
            => /\ resp'[r] = ErrorResponse(503)
               /\ UNCHANGED <<outstandingRequests, shutdownRequested,
                              httpShutdownRequested, count, totalTime,
                              hashedPasswords, tmp, goroutine>>]_vars
    /\ [](\A r \in Reqs :
            Rejected(r) => /\ resp[r] = ErrorResponse(503)
                           /\ tmp[r] = 0
                           /\ goroutine[r] = NoGoroutine)

\* a POST /hash with an acceptable password, which hash() would have
\* accepted, was turned away with 503 and no identifier was taken
C20_Witness ==
    \E r \in Reqs :
        /\ Rejected(r)
        /\ Dispatch(req[r]) = "hash"
        /\ validate(req[r].form)
        /\ resp[r] = ErrorResponse(503)
        /\ count = 0

(* ------------------------------ shutdown ------------------------------ *)

\* the request r is for the path /shutdown
ForShutdown(r) == req[r].uri = Uri(ShutdownMethod)

\* C21: a /shutdown request starts the drain with whatever verb it is sent:
\* once it has been admitted and served, shutdownRequested is set and its
\* response is the acknowledgment
C21_ShutdownWithAnyVerb ==
    \A r \in Reqs :
        (Admitted(r) /\ ForShutdown(r) /\ pc[r] = "done")
        => shutdownRequested /\ resp[r] = ShutdownResponse

\* C22: shutdown() never waits for the drain: whatever the counter and the
\* signal, its step is enabled, it has written the acknowledgment once the
\* step is taken, and the release that ends the handler is enabled as well
C22_ShutdownNeverWaits ==
    \A r \in Reqs :
        /\ At(r, "shutdown") => ENABLED shutdown(r)
        /\ (Called(r) = "shutdown" /\ At(r, "decOutstandingAndCheckForShutdown"))
           => /\ resp[r] = ShutdownResponse
              /\ shutdownRequested
              /\ ENABLED decOutstandingAndCheckForShutdown(r)

\* the /shutdown request has been acknowledged and released while another
\* request is still in its handler and the signal has not been given
C22_Witness ==
    \E r, q \in Reqs :
        /\ Called(r) = "shutdown" /\ pc[r] = "done" /\ resp[r] = ShutdownResponse
        /\ Admitted(q) /\ Active(q) /\ Called(q) # "shutdown"
        /\ outstandingRequests = 1
        /\ ~Signalled

\* C23 as stated: the body of shutdown() is idempotent in any state: where
\* the flag is already set, running it again, which leaves the flag and the
\* counter as they are, would not give the signal again, also when the
\* counter is zero
C23_SecondInvocationNoEffect ==
    shutdownRequested => ~shutdownSignals(outstandingRequests)

\* shutdown() runs for the request r in this step
RunsShutdown(r) == pc[r] = "shutdown" /\ pc'[r] # pc[r]

\* C23: shutdown() runs only while the counter counts the request it runs
\* for, and there a second invocation has no effect: the flag stays true,
\* the counter is unchanged and the signal is not given
C23_SecondInvocationWhileCounted ==
    /\ [](\A r \in Reqs : pc[r] = "shutdown" => outstandingRequests >= 1)
    /\ [][\A r \in Reqs :
            (RunsShutdown(r) /\ shutdownRequested)
            => /\ shutdownRequested'
               /\ outstandingRequests' = outstandingRequests
               /\ httpShutdownRequested' = httpShutdownRequested]_vars

\* shutdown() has run for two requests and neither has been released
C23_Witness ==
    \E r, q \in Reqs :
        /\ r # q
        /\ Called(r) = "shutdown" /\ pc[r] = "decOutstandingAndCheckForShutdown"
        /\ Called(q) = "shutdown" /\ pc[q] = "decOutstandingAndCheckForShutdown"
        /\ shutdownRequested
        /\ outstandingRequests = 2
        /\ ~Signalled

\* C24: main() calls srv.Shutdown, which closes the listener, only once the
\* signal has been given, that is with shutdown requested and no admitted
\* request outstanding, and the process exits only once the goroutine of
\* ListenAndServe has returned
C24_LifecycleOrder ==
    /\ mainPc # "Wait" => (Signalled /\ shutdownRequested /\ outstandingRequests = 0)
    /\ ~listening => mainPc # "Wait"
    /\ mainPc = "exited" => (~listening /\ httpServerExitDone = 0)

\* the process has exited after a request other than /shutdown was served
\* and released
C24_Witness ==
    /\ mainPc = "exited"
    /\ \E r \in Reqs : Admitted(r) /\ Called(r) # "shutdown" /\ pc[r] = "done"

(* ------------------------- paths under /hash -------------------------- *)

\* an integer in decimal notation, with or without a sign
IsInteger(s) ==
    \/ IsDecimal(s)
    \/ Len(s) > 1 /\ s[1] \in {"+", "-"} /\ IsDecimal(SubSeq(s, 2, Len(s)))

\* the path of r is /hash followed by exactly one qualifier, an integer
OneIntegerQualifier(r) ==
    Len(Split(req[r].uri)) = 3 /\ IsInteger(Split(req[r].uri)[3])

\* C25: GET /hash is answered with 422 when the identifier is missing, empty,
\* not an integer or followed by further segments, and with 404 or a digest
\* only when the path has exactly one qualifier and it is an integer;
\* answering changes no state of the server
C25_MalformedRetrieval ==
    /\ [](\A r \in Reqs :
            Retrieved(r)
            => /\ ~OneIntegerQualifier(r) => resp[r] = ErrorResponse(422)
               /\ resp[r] # ErrorResponse(422)
                  => /\ OneIntegerQualifier(r)
                     /\ resp[r] = ErrorResponse(404) \/ resp[r].kind = "hashedPassword")
    /\ [][\A r \in Reqs :
            Answers(r)
            => UNCHANGED <<count, totalTime, hashedPasswords, goroutine,
                           outstandingRequests, shutdownRequested>>]_vars

\* GET /hash/1/2 was answered with 422 while the digest of identifier 1 was
\* stored
C25_Witness ==
    \E r \in Reqs :
        /\ Retrieved(r)
        /\ Split(req[r].uri) = <<EmptyString, HashMethod, <<"1">>, <<"2">>>>
        /\ resp[r] = ErrorResponse(422)
        /\ 1 \in DOMAIN hashedPasswords

\* hash() has answered the request r
Submitted(r) == InHash(r) /\ pc[r] \notin {"hash", "hashRespond"}

\* the password of r is missing or longer than the maximum
MissingOrOversized(r) ==
    len(Password(r)) = 0 \/ len(Password(r)) > MaximumAcceptablePasswordLength

\* C26: a POST /hash whose path has a segment after "hash" never takes an
\* identifier and never starts a goroutine; it is answered with 412 when the
\* password is missing or oversized, whatever the path, and with 422
\* otherwise
C26_SubmissionWithQualifier ==
    \A r \in Reqs :
        (InHash(r) /\ Len(Split(req[r].uri)) > 2)
        => /\ tmp[r] = 0
           /\ goroutine[r] = NoGoroutine
           /\ pc[r] # "hashRespond"
           /\ Submitted(r)
              => resp[r] = IF MissingOrOversized(r)
                           THEN ErrorResponse(412)
                           ELSE ErrorResponse(422)

(* --------------------------- the drain gate --------------------------- *)

\* C27: shutdownRequested never goes back to false, and once it is true
\* outstandingRequests never increases
C27_FlagMonotonic ==
    [][shutdownRequested
       => /\ shutdownRequested'
          /\ outstandingRequests' <= outstandingRequests]_vars

\* the /shutdown request and a request admitted before the flag was set have
\* been released with the flag set, and the counter is back to zero
C27_Witness ==
    \E r \in Reqs :
        /\ shutdownRequested
        /\ Called(r) = "shutdown" /\ pc[r] = "done"
        /\ \E q \in Reqs : q # r /\ Admitted(q) /\ pc[q] = "done" /\ q > r
        /\ outstandingRequests = 0

\* the requests that were admitted and are not released
Outstanding == {r \in Reqs : Admitted(r) /\ pc[r] # "done"}

\* C28: outstandingRequests is never negative and is the number of requests
\* that were admitted and are not released; a request turned away with 503
\* is not counted
C28_CounterCountsAdmitted ==
    /\ outstandingRequests >= 0
    /\ outstandingRequests = Cardinality(Outstanding)
    /\ \A r \in Reqs : Rejected(r) => r \notin Outstanding

\* the counter is 1 for the /shutdown request that is not released yet,
\* while the request after it was turned away
C28_Witness ==
    \E r, q \in Reqs :
        /\ Called(r) = "shutdown" /\ pc[r] = "decOutstandingAndCheckForShutdown"
        /\ Rejected(q) /\ pc[q] = "done"
        /\ outstandingRequests = 1

\* the release of this step brings the counter to zero with the flag set
LastRelease ==
    shutdownRequested /\ outstandingRequests = 1 /\ outstandingRequests' = 0

\* C29: shutdown() sets the flag and, in the same step, gives the signal
\* when the counter is zero and does not give it otherwise; the signal is
\* then given by the release that brings the counter to zero, and by no
\* other step
C29_SignalAtZero ==
    /\ [](shutdownSignals(0) /\ ~shutdownSignals(1))
    /\ [][/\ \A r \in Reqs :
               RunsShutdown(r)
               => /\ shutdownRequested'
                  /\ httpShutdownRequested' =
                         IF outstandingRequests = 0
                         THEN httpShutdownRequested - 1
                         ELSE httpShutdownRequested
          /\ LastRelease => httpShutdownRequested' = httpShutdownRequested - 1
          /\ httpShutdownRequested' # httpShutdownRequested
             => \/ LastRelease
                \/ \E r \in Reqs : RunsShutdown(r) /\ outstandingRequests = 0]_vars

\* shutdown() ran for a request admitted after an accepted submission, with
\* the counter above zero, and the signal was given by the last release
C29_Witness ==
    \E r, q \in Reqs :
        /\ Called(r) = "shutdown" /\ pc[r] = "done"
        /\ InHash(q) /\ tmp[q] = 1 /\ pc[q] = "done" /\ q < r
        /\ outstandingRequests = 0
        /\ Signalled

(* ------------------------------- locks -------------------------------- *)

\* C30: no handler, goroutine or main() waits forever for a lock: a request
\* that stands before mu.Lock() or requestsMutex.Lock() never finds the
\* lock left locked for good
C30_NoTaskWaitsForALock ==
    \A r \in Reqs :
        /\ pc[r] \in {"stats", "measurePostTime"} => mu # "locked"
        /\ pc[r] \in {"shutdown", "decOutstandingAndCheckForShutdown"}
           => requestsMutex # "locked"


(* ------------------------------ claim C31 ----------------------------- *)

\* the performHash goroutine of request r is in its delay
Pending(r) == goroutine[r].pc = "Sleep"

\* performHash() stores the digest of request r
Stores(r) == goroutine[r].pc = "Sleep" /\ goroutine'[r].pc = "returned"

\* C31: the digest task is decoupled from the request that starts it.  The
\* step of hash() that writes the identifier starts the task and stores
\* nothing; while the task is in its delay the request can finish its
\* handler and be released, and a retrieval can read the store, so the task
\* holds no lock; the step of the task is the single write to the store and
\* touches neither the gate nor the statistics.
C31_TaskDecoupled ==
    /\ [][\A r \in Reqs :
            pc[r] = "hashRespond" /\ pc'[r] # pc[r]
                => Pending(r)' /\ hashedPasswords' = hashedPasswords]_vars
    /\ [](\A r \in Reqs :
            Pending(r) =>
                /\ pc[r] = "measurePostTime" /\ mu = "unlocked"
                       => ENABLED measurePostTime(r)
                /\ pc[r] = "decOutstandingAndCheckForShutdown"
                       => ENABLED decOutstandingAndCheckForShutdown(r)
                /\ \A q \in Reqs : pc[q] = "hashWithQualifier"
                       => ENABLED hashWithQualifier(q))
    /\ [][\A r \in Reqs :
            Stores(r) =>
                /\ DOMAIN hashedPasswords' =
                       DOMAIN hashedPasswords \cup {goroutine[r].identifier}
                /\ UNCHANGED <<count, totalTime, mu, pc, resp>>
                /\ UNCHANGED gateVars]_vars

\* the signal has fired, the submission is released, its task is pending
C31_Witness ==
    /\ Signalled
    /\ \E r \in Reqs : InHash(r) /\ pc[r] = "done" /\ Pending(r)


(* ------------------------------ claim C32 ----------------------------- *)

\* how many times request r has decremented the counter
Releases(r) ==
    Cardinality({i \in 1..Len(calls[r]) :
                    calls[r][i] = "decOutstandingAndCheckForShutdown"})

\* C32: an admitted request decrements the counter exactly once, and only
\* after its routed handler or the 405 responder has returned: never more
\* than once, never while the handler is still running, and once when the
\* handler invocation has ended.
C32_ReleasedExactlyOnce ==
    \A r \in Reqs :
        Admitted(r) =>
            /\ Releases(r) <= 1
            /\ Releases(r) = 1 => pc[r] = "done"
            /\ ~Active(r) => Releases(r) = 1


(* ------------------------------ claim C33 ----------------------------- *)

\* the highest identifier hash() has allocated so far, 0 when there is none
HighestHandle ==
    IF \A q \in Reqs : tmp[q] = 0 THEN 0
    ELSE CHOOSE h \in {tmp[q] : q \in Reqs} : \A q \in Reqs : tmp[q] <= h

\* C33: count is both the allocator of identifiers and the total of the
\* statistics: in every state it is the highest identifier allocated so far
\* and the number of accepted submissions, and the total GET /stats answers
\* is that number.
C33_TotalIsHighestHandle ==
    /\ [](/\ count = HighestHandle
          /\ count = Cardinality(AcceptedSubmissions))
    /\ [][\A r \in Reqs :
            Snapshot(r) => /\ resp'[r].n = HighestHandle
                           /\ resp'[r].n = Cardinality(AcceptedSubmissions)]_vars

\* GET /stats has answered the total 1 after one submission took identifier 1
C33_Witness ==
    \E r, q \in Reqs :
        /\ resp[r].kind = "stats" /\ resp[r].n = 1
        /\ InHash(q) /\ tmp[q] = 1 /\ HighestHandle = 1


(* ------------------------------ claim C34 ----------------------------- *)

\* the request r is released in this step
Released(r) == Releases(r)' = Releases(r) + 1

\* C34: when shutdown() runs for a request the counter counts that request,
\* so it is at least 1, the condition of the branch for zero is false and
\* the step does not give the signal; the signal is given only by a step of
\* decOutstandingAndCheckForShutdown, and once it is given every request
\* routed to shutdown(), of which there is one at least, has been released.
C34_SignalAtRelease ==
    /\ [][\A r \in Reqs :
            RunsShutdown(r) =>
                /\ outstandingRequests >= 1
                /\ ~shutdownSignals(outstandingRequests)
                /\ httpShutdownRequested' = httpShutdownRequested]_vars
    /\ [][httpShutdownRequested' # httpShutdownRequested
             => \E r \in Reqs :
                    /\ pc[r] = "decOutstandingAndCheckForShutdown"
                    /\ Released(r)]_vars
    /\ [](Signalled =>
            /\ \E r \in Reqs : Called(r) = "shutdown"
            /\ \A r \in Reqs : Called(r) = "shutdown" => Releases(r) = 1)

\* the only request is a /shutdown and its own release has given the signal
C34_Witness ==
    \E r \in Reqs :
        /\ Called(r) = "shutdown" /\ Releases(r) = 1
        /\ \A q \in Reqs \ {r} : pc[q] = "idle"
        /\ Signalled


(* ------------------------------ claim C35 ----------------------------- *)

\* C35: once the signal has been given the gate does not move any more: the
\* flag is set, the counter is zero and no request is in a handler, and from
\* then on the signal stays given, no identifier is allocated, and the only
\* step a request takes is to arrive and be turned away with 503.
C35_TerminalGate ==
    /\ [](Signalled =>
            /\ shutdownRequested
            /\ outstandingRequests = 0
            /\ \A r \in Reqs : pc[r] \in {"idle", "done"})
    /\ [][Signalled =>
            /\ Signalled'
            /\ count' = count /\ tmp' = tmp
            /\ \A r \in Reqs :
                  pc'[r] # pc[r] => /\ Rejected(r)'
                                    /\ resp'[r] = ErrorResponse(503)
                                    /\ pc'[r] = "done"]_vars

\* the signal has been given, main() has not yet closed the listener, and a
\* request that came after the /shutdown request was turned away
C35_Witness ==
    \E r, q \in Reqs :
        /\ Signalled /\ mainPc = "Wait"
        /\ Called(q) = "shutdown" /\ Releases(q) = 1
        /\ q < r /\ Rejected(r) /\ resp[r] = ErrorResponse(503)


(* ------------------------------ claim C36 ----------------------------- *)

\* the performHash goroutines started for the identifier h
Tasks(h) == {r \in Reqs : goroutine[r].pc # "none" /\ goroutine[r].identifier = h}

\* C36: every key of hashedPasswords is an identifier hash() has allocated,
\* from 1 to count; one goroutine is started for each allocated identifier
\* and it writes once, at its own key, a key that is not yet in the map; so
\* the map never has more entries than there are accepted submissions.
C36_StoreWithinIssued ==
    /\ [](/\ DOMAIN hashedPasswords \subseteq 1..count
          /\ \A h \in 1..count : Cardinality(Tasks(h)) <= 1
          /\ \A h \in DOMAIN hashedPasswords :
                \E r \in Tasks(h) : goroutine[r].pc = "returned"
          /\ Cardinality(DOMAIN hashedPasswords) <= Cardinality(AcceptedSubmissions))
    /\ [][\A r \in Reqs :
            Stores(r) =>
                /\ goroutine[r].identifier \notin DOMAIN hashedPasswords
                /\ DOMAIN hashedPasswords' =
                       DOMAIN hashedPasswords \cup {goroutine[r].identifier}]_vars

\* two submissions were accepted and the store holds their two digests
C36_Witness ==
    /\ count = 2
    /\ DOMAIN hashedPasswords = {1, 2}
    /\ Cardinality(AcceptedSubmissions) = 2


(* ------------------------------ claim C37 ----------------------------- *)

\* the place of a decimal digit in 0..9, counted from 1
Ord(c) == CHOOSE i \in 1..10 : DecimalDigits[i] = c

RECURSIVE LexLeq(_, _, _)
\* of two digit strings of one length, a is not above b from position i on
LexLeq(a, b, i) ==
    IF i > Len(a) THEN TRUE
    ELSE IF Ord(a[i]) # Ord(b[i]) THEN Ord(a[i]) < Ord(b[i])
    ELSE LexLeq(a, b, i + 1)

\* the number written m, without sign or leading zeros, is at most the one
\* written limit
AtMost(m, limit) ==
    \/ Len(m) < Len(limit)
    \/ Len(m) = Len(limit) /\ LexLeq(m, limit, 1)

\* the integer written s, without leading zeros, lies in -2^31 .. 2^31 - 1
InRange32(s) ==
    IF s[1] = "-"
    THEN AtMost(SubSeq(s, 2, Len(s)),
                <<"2", "1", "4", "7", "4", "8", "3", "6", "4", "8">>)
    ELSE AtMost(s, <<"2", "1", "4", "7", "4", "8", "3", "6", "4", "7">>)

\* the keys of the store that are written s
Keys(s) == {k \in DOMAIN hashedPasswords : Itoa(k) = s}

=============================================================================
